---- MODULE Spec2Model ----
(***************************************************************************)
(* A model of chatgpt_text_tools.py: the command-line entry point main,   *)
(* the client ChatGPTHelper (check_grammar, generate_tldr, list_models)   *)
(* and the file logger log_to_file.                                       *)
(*                                                                         *)
(* Text is a sequence of one-character strings, so that str.strip() and   *)
(* f-string concatenation are computed and not assumed.  An optional      *)
(* Python value is None (the empty tuple) or Some(v) (a one-tuple).       *)
(* The remote service and the secret store are stubs fixed per process at *)
(* start: stub[p] is what the service answers, keyring[p] what the store  *)
(* returns.  The file system is taken to be reliable: open() and write()  *)
(* on the log file do not fail.                                           *)
(***************************************************************************)
EXTENDS Integers, Sequences, FiniteSets, TLC

VARIABLES
    procs,      \* the processes running the program
    argv,       \* per process: the command line after the program name
    keyring,    \* per process: what keyring.get_password returns
    stub,       \* per process: what the remote service answers
    verbose,    \* per process: the verbose argument of the client's operations
    pc,         \* per process: position in the program
    task,       \* main's local task
    text,       \* main's local text
    api_key,    \* main's local api_key
    helper,     \* the constructed ChatGPTHelper (the key it stored), or None
    call,       \* the log_to_file call in progress: message and where it returns
    handle,     \* the open file handle of log_to_file, with the timestamp taken
    result,     \* the value the operation returned, or None
    exc,        \* the description of the exception that is propagating, or None
    sent,       \* per process: the network requests issued, in order
    stdout,     \* per process: the lines printed, in order
    exit_code,  \* per process: exit status (0 unless sys.exit(1) ran)
    log,        \* the content of the log file: the entries written, in order
    log0,       \* history: the content of the log file at start
    written,    \* history: per process, the entries it wrote, in order
    clock       \* the local time datetime.now() returns

vars == <<procs, argv, keyring, stub, verbose, pc, task, text, api_key, helper,
          call, handle, result, exc, sent, stdout, exit_code, log, log0,
          written, clock>>

(***************************************************************************)
(* Bounds                                                                  *)
(***************************************************************************)
MaxLen == 3
MaxCatalog == 2
MaxClock == 1
NumProcs == 2

None == <<>>
Some(x) == <<x>>

MODEL_CHECK_GRAMMAR == "gpt-4o-2024-08-06"
MODEL_TLDR == "gpt-4o-2024-08-06"

(***************************************************************************)
(* Python's built-in conversions                                           *)
(***************************************************************************)
Whitespace == {" ", "\n", "\t"}

RECURSIVE lstrip(_)
lstrip(s) == IF s # <<>> /\ Head(s) \in Whitespace THEN lstrip(Tail(s)) ELSE s

RECURSIVE rstrip(_)
rstrip(s) ==
    IF s # <<>> /\ s[Len(s)] \in Whitespace
    THEN rstrip(SubSeq(s, 1, Len(s) - 1))
    ELSE s

strip_left_only(s) == lstrip(s)

strip(s) == rstrip(lstrip(s))

lower_identity(s) == s

\* str.lower() on the task names the inputs use
lower(s) ==
    CASE s = "GRAMMAR" -> "grammar"
      [] s = "LM" -> "lm"
      [] OTHER -> s

\* `not v` for an optional string: None and the empty string are falsy
falsy_none_only(v) == v = None

falsy(v) == v = None \/ v[1] = <<>>

RECURSIVE repr_items(_)
repr_items(names) ==
    IF names = <<>> THEN <<>>
    ELSE <<"'", Head(names), "'">> \o
         (IF Tail(names) = <<>> THEN <<>> ELSE <<", ">>) \o
         repr_items(Tail(names))

pystr_repr(r) ==
    IF r.kind = "list" THEN <<"[">> \o repr_items(r.value) \o <<"]">>
    ELSE <<"'">> \o r.value \o <<"'">>

\* str(result) as print(result) shows it: a string as it is, a list as its repr
pystr(r) ==
    IF r.kind = "list" THEN <<"[">> \o repr_items(r.value) \o <<"]">>
    ELSE r.value

(***************************************************************************)
(* Inputs                                                                  *)
(***************************************************************************)
Chars == {" ", "\n", "a"}
StrsUpTo(n) == UNION {[1..k -> Chars] : k \in 0..n}

SheDont == <<"S","h","e"," ","d","o","n","t"," ","l","i","k","e"," ","i","t">>
SheDoesnt == <<"S","h","e"," ","d","o","e","s","n","'","t"," ",
               "l","i","k","e"," ","i","t",".">>

Tasks == {"grammar", "GRAMMAR", "tldr", "list_models", "lm", "LM", "summarize"}
Texts == {<<>>, <<" ">>, <<"a">>, SheDont}
Argvs ==
    {[task |-> None, text |-> None]}
    \cup {[task |-> Some(t), text |-> None] : t \in Tasks}
    \cup {[task |-> Some(t), text |-> Some(x)] : t \in Tasks, x \in Texts}
Keys == {None, Some(<<>>), Some(<<"s", "k">>)}

Replies == StrsUpTo(MaxLen) \cup {SheDoesnt}
Completions ==
    {[raises |-> Some("APIConnectionError"), choices |-> <<>>],
     [raises |-> None, choices |-> <<>>],
     [raises |-> None, choices |-> <<[content |-> None]>>],
     [raises |-> None,
      choices |-> <<[content |-> Some(<<"a", " ">>)], [content |-> Some(<<"b">>)]>>]}
    \cup {[raises |-> None, choices |-> <<[content |-> Some(s)]>>] : s \in Replies}

ModelRecords ==
    {[id |-> "gpt-a", object |-> "model"],
     [id |-> "gpt-b", object |-> "model"],
     [object |-> "model"]}
Catalogs ==
    {[raises |-> Some("APIConnectionError"), data |-> <<>>]}
    \cup {[raises |-> None, data |-> d] :
            d \in UNION {[1..k -> ModelRecords] : k \in 0..MaxCatalog}}

DefaultCompletion == [raises |-> None, choices |-> <<[content |-> Some(SheDoesnt)]>>]
DefaultCatalog ==
    [raises |-> None,
     data |-> <<[id |-> "gpt-a", object |-> "model"],
                [id |-> "gpt-b", object |-> "model"]>>]
Stubs ==
    {[completion |-> c, models |-> DefaultCatalog] : c \in Completions}
    \cup {[completion |-> DefaultCompletion, models |-> m] : m \in Catalogs}

OldEntry == [timestamp |-> 0, message |-> <<"Received text: ", "a">>]
OldLogs == {<<>>, <<OldEntry>>}

(***************************************************************************)
(* State after start                                                       *)
(***************************************************************************)
Fresh(P) ==
    /\ procs = P
    /\ task = [p \in P |-> None]
    /\ api_key = [p \in P |-> None]
    /\ helper = [p \in P |-> None]
    /\ call = [p \in P |-> None]
    /\ handle = [p \in P |-> None]
    /\ result = [p \in P |-> None]
    /\ exc = [p \in P |-> None]
    /\ sent = [p \in P |-> <<>>]
    /\ stdout = [p \in P |-> <<>>]
    /\ exit_code = [p \in P |-> 0]
    /\ written = [p \in P |-> <<>>]
    /\ log0 \in OldLogs
    /\ log = log0
    /\ clock = 0

\* one invocation of the program: main passes verbose=True to every operation
Init ==
    /\ Fresh({1})
    /\ argv \in [{1} -> Argvs]
    /\ keyring \in [{1} -> Keys]
    /\ stub \in [{1} -> Stubs]
    /\ verbose = [p \in {1} |-> TRUE]
    /\ text = [p \in {1} |-> None]
    /\ pc = [p \in {1} |-> "start"]

(***************************************************************************)
(* log_to_file: timestamp, open(filename, "a"), write, close, echo         *)
(***************************************************************************)
\* open(filename, "a") leaves the content of the file as it is
open_truncate(file) == <<>>

open_append(file) == file

\* f.write on a handle opened for appending adds the entry at the end
file_write_nothing(file, entry) == file

file_write(file, entry) == Append(file, entry)

\* print(...) at a line of the source; ts is the timestamp a log echo shows
Line(n, ts, txt) == [line |-> n, ts |-> ts, text |-> txt]

Out(p, lines) == stdout' = [stdout EXCEPT ![p] = @ \o lines]

\* a call log_to_file(log_file, message, verbose) that returns to `next`
LogCall(p, message, next) ==
    /\ call' = [call EXCEPT ![p] = Some([message |-> message, next |-> next])]
    /\ pc' = [pc EXCEPT ![p] = "log_to_file"]

log_to_file_open(p) ==
    /\ pc[p] = "log_to_file"
    /\ handle' = [handle EXCEPT ![p] = Some([timestamp |-> clock])]
    /\ log' = open_append(log)
    /\ pc' = [pc EXCEPT ![p] = "log_write"]
    /\ UNCHANGED <<procs, argv, keyring, stub, verbose, task, text, api_key,
                   helper, call, result, exc, sent, stdout, exit_code, log0,
                   written, clock>>

log_to_file_write(p) ==
    /\ pc[p] = "log_write"
    /\ LET ts == handle[p][1].timestamp
           message == call[p][1].message
           entry == [timestamp |-> ts, message |-> message]
       IN /\ log' = file_write(log, entry)
          /\ written' = [written EXCEPT ![p] = Append(@, entry)]
          /\ IF verbose[p]
             THEN Out(p, <<Line(53, Some(ts), <<"Log: ">> \o message)>>)
             ELSE UNCHANGED stdout
    /\ handle' = [handle EXCEPT ![p] = None]
    /\ pc' = [pc EXCEPT ![p] = call[p][1].next]
    /\ call' = [call EXCEPT ![p] = None]
    /\ UNCHANGED <<procs, argv, keyring, stub, verbose, task, text, api_key,
                   helper, result, exc, sent, exit_code, log0, clock>>

\* the local time moves on
Tick ==
    /\ clock < MaxClock
    /\ clock' = clock + 1
    /\ UNCHANGED <<procs, argv, keyring, stub, verbose, pc, task, text, api_key,
                   helper, call, handle, result, exc, sent, stdout, exit_code,
                   log, log0, written>>

(***************************************************************************)
(* check_grammar and generate_tldr                                         *)
(***************************************************************************)
\* the `raise` that ends the except block
after_error_swallow == "return"

after_error == "raise"

\* completion.choices[0].message.content.strip(): the text, or what it raises
read_completion(c) ==
    IF c.raises # None THEN [ok |-> FALSE, value |-> <<>>, error |-> c.raises[1]]
    ELSE IF c.choices = <<>>
    THEN [ok |-> FALSE, value |-> <<>>, error |-> "list index out of range"]
    ELSE IF c.choices[1].content = None
    THEN [ok |-> FALSE, value |-> <<>>,
          error |-> "'NoneType' object has no attribute 'strip'"]
    ELSE [ok |-> TRUE, value |-> strip(c.choices[1].content[1]), error |-> ""]

\* the try/except of check_grammar and generate_tldr
completion_request(p, model, prompt, label) ==
    /\ sent' = [sent EXCEPT ![p] = Append(@,
                  [api |-> "ChatCompletion.create", model |-> model,
                   messages |-> <<[role |-> "user", content |-> prompt]>>])]
    /\ LET r == read_completion(stub[p].completion)
       IN IF r.ok
          THEN /\ result' = [result EXCEPT ![p] =
                                Some([kind |-> "str", value |-> r.value])]
               /\ LogCall(p, <<label>> \o r.value, "return")
               /\ UNCHANGED exc
          ELSE /\ exc' = [exc EXCEPT ![p] = Some(r.error)]
               /\ LogCall(p, <<"Error: ", r.error>>, after_error)
               /\ UNCHANGED result
    /\ UNCHANGED <<procs, argv, keyring, stub, verbose, task, text, api_key,
                   helper, handle, stdout, exit_code, log, log0, written, clock>>

check_grammar(p) ==
    /\ pc[p] = "check_grammar"
    /\ LogCall(p, <<"Received text: ">> \o text[p][1], "check_grammar_try")
    /\ UNCHANGED <<procs, argv, keyring, stub, verbose, task, text, api_key,
                   helper, handle, result, exc, sent, stdout, exit_code, log,
                   log0, written, clock>>

check_grammar_try(p) ==
    /\ pc[p] = "check_grammar_try"
    /\ completion_request(p, MODEL_CHECK_GRAMMAR,
          <<"Check grammar, only output the text, no explanations or comments: ">>
             \o text[p][1],
          "Corrected text: ")

generate_tldr(p) ==
    /\ pc[p] = "generate_tldr"
    /\ LogCall(p, <<"Received text: ">> \o text[p][1], "generate_tldr_try")
    /\ UNCHANGED <<procs, argv, keyring, stub, verbose, task, text, api_key,
                   helper, handle, result, exc, sent, stdout, exit_code, log,
                   log0, written, clock>>

generate_tldr_try(p) ==
    /\ pc[p] = "generate_tldr_try"
    /\ completion_request(p, MODEL_TLDR,
          <<"Provide a TLDR for the following email. Do not use 3rd person, just a 1st person TLDR: ">>
             \o text[p][1],
          "TLDR: ")

(***************************************************************************)
(* list_models                                                             *)
(***************************************************************************)
RECURSIVE model_names_reversed(_)
model_names_reversed(data) ==
    IF data = <<>> THEN <<>>
    ELSE Append(model_names_reversed(Tail(data)), Head(data).id)

\* [model['id'] for model in models['data']]
model_names(data) == [i \in 1..Len(data) |-> data[i].id]

list_models(p) ==
    /\ pc[p] = "list_models"
    /\ sent' = [sent EXCEPT ![p] = Append(@, [api |-> "Model.list"])]
    /\ LET m == stub[p].models
           error == IF m.raises # None THEN m.raises
                    ELSE IF \E i \in 1..Len(m.data) : "id" \notin DOMAIN m.data[i]
                    THEN Some("'id'")
                    ELSE None
       IN IF error = None
          THEN /\ result' = [result EXCEPT ![p] =
                                Some([kind |-> "list", value |-> model_names(m.data)])]
               /\ IF verbose[p]
                  THEN Out(p, <<Line(114, None, <<"Available models:">>)>> \o
                              [i \in 1..Len(m.data) |->
                                  Line(116, None, <<"- ", model_names(m.data)[i]>>)])
                  ELSE UNCHANGED stdout
               /\ pc' = [pc EXCEPT ![p] = "return"]
               /\ UNCHANGED exc
          ELSE /\ exc' = [exc EXCEPT ![p] = error]
               /\ IF verbose[p]
                  THEN Out(p, <<Line(120, None, <<"Error fetching models: ", error[1]>>)>>)
                  ELSE UNCHANGED stdout
               /\ pc' = [pc EXCEPT ![p] = "raise"]
               /\ UNCHANGED result
    /\ UNCHANGED <<procs, argv, keyring, stub, verbose, task, text, api_key,
                   helper, call, handle, exit_code, log, log0, written, clock>>

(***************************************************************************)
(* main                                                                    *)
(***************************************************************************)
\* sys.exit(1) after printing `lines`; SystemExit passes `except Exception`
Exit1(p, lines) ==
    /\ Out(p, lines)
    /\ exit_code' = [exit_code EXCEPT ![p] = 1]
    /\ pc' = [pc EXCEPT ![p] = "done"]

\* lines 128-134: the argument count, then task, text and the stored key
main_args(p) ==
    /\ pc[p] = "start"
    /\ IF argv[p].task = None
       THEN /\ Exit1(p, <<Line(129, None,
                          <<"Usage: python chatgpt_text_tools.py <task> [<text>]">>)>>)
            /\ UNCHANGED <<task, text, api_key>>
       ELSE /\ task' = [task EXCEPT ![p] = Some(lower(argv[p].task[1]))]
            /\ text' = [text EXCEPT ![p] = argv[p].text]
            /\ api_key' = [api_key EXCEPT ![p] = keyring[p]]
            /\ pc' = [pc EXCEPT ![p] = "credential"]
            /\ UNCHANGED <<stdout, exit_code>>
    /\ UNCHANGED <<procs, argv, keyring, stub, verbose, helper, call, handle,
                   result, exc, sent, log, log0, written, clock>>

\* lines 136-141
main_credential(p) ==
    /\ pc[p] = "credential"
    /\ IF falsy(api_key[p])
       THEN Exit1(p, <<Line(137, None, <<"API key not found in Keychain. Please add it first.">>),
                       Line(138, None, <<"Use Keychain Access to add the key with:">>),
                       Line(139, None, <<" - Service name: OPENAI_API_KEY">>),
                       Line(140, None, <<" - Account name: ChatGPT Integration">>)>>)
       ELSE /\ pc' = [pc EXCEPT ![p] = "construct"]
            /\ UNCHANGED <<stdout, exit_code>>
    /\ UNCHANGED <<procs, argv, keyring, stub, verbose, task, text, api_key,
                   helper, call, handle, result, exc, sent, log, log0, written,
                   clock>>

\* line 144 and ChatGPTHelper.__init__
main_construct(p) ==
    /\ pc[p] = "construct"
    /\ IF falsy(api_key[p])
       THEN /\ exc' = [exc EXCEPT ![p] =
                          Some("OPENAI_API_KEY environment variable not set.")]
            /\ pc' = [pc EXCEPT ![p] = "raise"]
            /\ UNCHANGED helper
       ELSE /\ helper' = [helper EXCEPT ![p] = api_key[p]]
            /\ pc' = [pc EXCEPT ![p] = "dispatch"]
            /\ UNCHANGED exc
    /\ UNCHANGED <<procs, argv, keyring, stub, verbose, task, text, api_key,
                   call, handle, result, sent, stdout, exit_code, log, log0,
                   written, clock>>

\* lines 145-159
main_dispatch(p) ==
    /\ pc[p] = "dispatch"
    /\ LET t == task[p][1]
       IN IF t = "grammar"
          THEN IF falsy(text[p])
               THEN Exit1(p, <<Line(147, None,
                               <<"Error: Text is required for the 'grammar' task.">>)>>)
               ELSE /\ pc' = [pc EXCEPT ![p] = "check_grammar"]
                    /\ UNCHANGED <<stdout, exit_code>>
          ELSE IF t = "tldr"
          THEN IF falsy(text[p])
               THEN Exit1(p, <<Line(152, None,
                               <<"Error: Text is required for the 'tldr' task.">>)>>)
               ELSE /\ pc' = [pc EXCEPT ![p] = "generate_tldr"]
                    /\ UNCHANGED <<stdout, exit_code>>
          ELSE IF t \in {"list_models", "lm"}
          THEN /\ pc' = [pc EXCEPT ![p] = "list_models"]
               /\ UNCHANGED <<stdout, exit_code>>
          ELSE Exit1(p, <<Line(158, None,
                          <<"Invalid task. Use 'grammar', 'tldr', or 'list_models'/'lm'.">>)>>)
    /\ UNCHANGED <<procs, argv, keyring, stub, verbose, task, text, api_key,
                   helper, call, handle, result, exc, sent, log, log0, written,
                   clock>>

\* lines 161-162, then the end of the program
main_result(p) ==
    /\ pc[p] = "return"
    /\ IF result[p][1].value # <<>>
       THEN Out(p, <<Line(162, None, pystr(result[p][1]))>>)
       ELSE UNCHANGED stdout
    /\ pc' = [pc EXCEPT ![p] = "done"]
    /\ UNCHANGED <<procs, argv, keyring, stub, verbose, task, text, api_key,
                   helper, call, handle, result, exc, sent, exit_code, log,
                   log0, written, clock>>

\* lines 163-165
main_except(p) ==
    /\ pc[p] = "raise"
    /\ Exit1(p, <<Line(164, None, <<"Error: ", exc[p][1]>>)>>)
    /\ UNCHANGED <<procs, argv, keyring, stub, verbose, task, text, api_key,
                   helper, call, handle, result, exc, sent, log, log0, written,
                   clock>>

Next ==
    \/ \E p \in procs : main_args(p)
    \/ \E p \in procs : main_credential(p)
    \/ \E p \in procs : main_construct(p)
    \/ \E p \in procs : main_dispatch(p)
    \/ \E p \in procs : check_grammar(p)
    \/ \E p \in procs : check_grammar_try(p)
    \/ \E p \in procs : generate_tldr(p)
    \/ \E p \in procs : generate_tldr_try(p)
    \/ \E p \in procs : list_models(p)
    \/ \E p \in procs : log_to_file_open(p)
    \/ \E p \in procs : log_to_file_write(p)
    \/ \E p \in procs : main_result(p)
    \/ \E p \in procs : main_except(p)
    \/ Tick

Spec == Init /\ [][Next]_vars

(***************************************************************************)
(* Several processes in check_grammar or generate_tldr on one log file     *)
(* (verbose left at its default).  One f.write of an entry reaches the     *)
(* file as one append at its end, which is what a handle opened with "a"   *)
(* gives; the clock stands still, entries differ by text and label.        *)
(***************************************************************************)
ConcTexts == {<<"a">>, <<" ">>}
ConcStubs ==
    {[completion |-> c, models |-> DefaultCatalog] :
        c \in {[raises |-> Some("APIConnectionError"), choices |-> <<>>],
               [raises |-> None, choices |-> <<[content |-> Some(<<" ", "a">>)]>>]}}

InitConc ==
    /\ Fresh(1..NumProcs)
    /\ argv = [p \in procs |-> [task |-> None, text |-> None]]
    /\ keyring = [p \in procs |-> None]
    /\ stub \in [procs -> ConcStubs]
    /\ verbose = [p \in procs |-> FALSE]
    /\ pc \in [procs -> {"check_grammar", "generate_tldr"}]
    /\ text \in [procs -> {Some(x) : x \in ConcTexts}]

NextConc ==
    \/ \E p \in procs : check_grammar(p)
    \/ \E p \in procs : check_grammar_try(p)
    \/ \E p \in procs : generate_tldr(p)
    \/ \E p \in procs : generate_tldr_try(p)
    \/ \E p \in procs : log_to_file_open(p)
    \/ \E p \in procs : log_to_file_write(p)

SpecConc == InitConc /\ [][NextConc]_vars

(***************************************************************************)
(* Vocabulary of the properties                                            *)
(***************************************************************************)
GrammarNames == {"grammar", "GRAMMAR"}
TldrNames == {"tldr"}
ListNames == {"list_models", "lm", "LM"}
Empty == {None, Some(<<>>)}

\* the process has issued a chat completion request
Requested(p) == sent[p] # <<>> /\ sent[p][1].api = "ChatCompletion.create"

\* the process has issued the catalog request
Listed(p) == sent[p] # <<>> /\ sent[p][1].api = "Model.list"

\* the stub answers the completion request with a readable text
Answers(c) == c.raises = None /\ c.choices # <<>> /\ c.choices[1].content # None

AllWhite(s, from, to) == \A k \in from..to : s[k] \in Whitespace

\* r is s without its leading and trailing whitespace
IsTrimOf(r, s) ==
    /\ r = <<>> \/ (r[1] \notin Whitespace /\ r[Len(r)] \notin Whitespace)
    /\ \E i \in 0..Len(s) : \E j \in i..Len(s) :
          /\ SubSeq(s, i + 1, j) = r
          /\ AllWhite(s, 1, i)
          /\ AllWhite(s, j + 1, Len(s))

\* the operation of process p is over (returned, raised, or the program ended)
Over(p) == pc[p] \in {"return", "raise", "done"}

ResultLabel(p) ==
    IF sent[p][1].messages[1].content[1] =
          "Check grammar, only output the text, no explanations or comments: "
    THEN "Corrected text: " ELSE "TLDR: "

\* C1: when the completion call of check_grammar or generate_tldr succeeds,
\* the operation has appended exactly two entries to the log file, first the
\* received text, then the model output without surrounding whitespace, and
\* that trimmed output is the value it returns.
C1_TwoEntriesOnSuccess ==
    \A p \in procs :
        (Requested(p) /\ Answers(stub[p].completion) /\ Over(p)) =>
            LET content == stub[p].completion.choices[1].content[1]
            IN /\ pc[p] # "raise"
               /\ result[p] # None
               /\ result[p][1].kind = "str"
               /\ IsTrimOf(result[p][1].value, content)
               /\ Len(written[p]) = 2
               /\ log = log0 \o written[p]
               /\ written[p][1].message = <<"Received text: ">> \o text[p][1]
               /\ written[p][2].message = <<ResultLabel(p)>> \o result[p][1].value

C1_Witness ==
    \E p \in procs :
        /\ pc[p] = "done"
        /\ task[p] = Some("tldr")
        /\ Requested(p) /\ Answers(stub[p].completion)
        /\ stub[p].completion.choices[1].content[1] = <<" ", "a", "\n">>
        /\ result[p] = Some([kind |-> "str", value |-> <<"a">>])
        /\ Len(written[p]) = 2

\* C2: when the completion call, or reading its response, fails, the
\* operation appends exactly one more entry after the received entry, holding
\* the error description, raises that error to its caller and returns no
\* value, and it has issued the network call once only.
C2_ErrorLoggedAndRaised ==
    \A p \in procs :
        (Requested(p) /\ ~Answers(stub[p].completion)) =>
            /\ pc[p] # "return"
            /\ result[p] = None
            /\ Len(sent[p]) = 1
            /\ exc[p] # None
            /\ stub[p].completion.raises # None => exc[p] = stub[p].completion.raises
            /\ Over(p) =>
                  /\ Len(written[p]) = 2
                  /\ log = log0 \o written[p]
                  /\ written[p][1].message = <<"Received text: ">> \o text[p][1]
                  /\ written[p][2].message = <<"Error: ", exc[p][1]>>
            /\ pc[p] = "done" => exit_code[p] = 1

C2_Witness ==
    \E p \in procs :
        /\ pc[p] = "done"
        /\ Requested(p)
        /\ stub[p].completion.raises = None
        /\ stub[p].completion.choices = <<>>
        /\ Len(written[p]) = 2
        /\ written[p][2].message = <<"Error: ", "list index out of range">>
        /\ exit_code[p] = 1

\* C3: list_models returns the identifiers of the catalog in the order of
\* the catalog and with its length: nothing dropped, duplicated, filtered or
\* reordered, also when the task is given by its alias lm.
C3_ListModelsKeepsOrder ==
    \A p \in procs :
        (Listed(p) /\ Over(p) /\ exc[p] = None) =>
            LET data == stub[p].models.data
                names == result[p][1].value
            IN /\ result[p][1].kind = "list"
               /\ Len(names) = Len(data)
               /\ \A i \in 1..Len(data) : names[i] = data[i].id

C3_Witness ==
    \E p \in procs :
        /\ pc[p] = "done"
        /\ argv[p].task = Some("lm")
        /\ Listed(p)
        /\ result[p] = Some([kind |-> "list", value |-> <<"gpt-a", "gpt-b">>])
        /\ exit_code[p] = 0

GuidanceLines ==
    <<Line(137, None, <<"API key not found in Keychain. Please add it first.">>),
      Line(138, None, <<"Use Keychain Access to add the key with:">>),
      Line(139, None, <<" - Service name: OPENAI_API_KEY">>),
      Line(140, None, <<" - Account name: ChatGPT Integration">>)>>

\* nothing has gone to the network or to the log file
Untouched(p) == sent[p] = <<>> /\ written[p] = <<>> /\ log = log0

\* C4: with task grammar and an empty or absent text the program exits with
\* code 1 and has neither issued a network call nor written a log entry,
\* whatever the credential is.
C4_GrammarWithoutText ==
    \A p \in procs :
        (argv[p].task # None /\ argv[p].task[1] \in GrammarNames
            /\ argv[p].text \in Empty) =>
            /\ Untouched(p)
            /\ pc[p] \in {"start", "credential", "construct", "dispatch", "done"}
            /\ pc[p] = "done" => exit_code[p] = 1
            /\ \A i \in 1..Len(stdout[p]) : stdout[p][i].line # 53

C4_Witness ==
    \E p \in procs :
        /\ pc[p] = "done"
        /\ argv[p] = [task |-> Some("grammar"), text |-> Some(<<>>)]
        /\ keyring[p] = Some(<<"s", "k">>)
        /\ helper[p] # None
        /\ exit_code[p] = 1
        /\ stdout[p] = <<Line(147, None,
                           <<"Error: Text is required for the 'grammar' task.">>)>>
        /\ Untouched(p)

\* C5: when the secret store returns no credential (None or empty) and a
\* task is given, the program prints the guidance naming service and
\* account and exits with code 1, with no client constructed, no network
\* call and no log entry, for every task name.
C5_NoCredential ==
    \A p \in procs :
        (argv[p].task # None /\ keyring[p] \in Empty) =>
            /\ helper[p] = None
            /\ Untouched(p)
            /\ pc[p] \in {"start", "credential", "done"}
            /\ pc[p] = "done" => (exit_code[p] = 1 /\ stdout[p] = GuidanceLines)

C5_Witness ==
    \E p \in procs :
        /\ pc[p] = "done"
        /\ argv[p].task = Some("lm")
        /\ keyring[p] = Some(<<>>)
        /\ stdout[p] = GuidanceLines
        /\ exit_code[p] = 1
        /\ helper[p] = None

\* the grammar task ran to its end with a text and the service answered
GrammarAnswered(p) ==
    /\ pc[p] = "done"
    /\ argv[p].task # None /\ argv[p].task[1] \in GrammarNames
    /\ argv[p].text \notin Empty
    /\ Requested(p) /\ Answers(stub[p].completion)

\* C6 as stated: for the grammar task with a text and a service that
\* returns s, standard output is exactly the trimmed s and nothing else,
\* and the exit code is 0.
C6_Original ==
    \A p \in procs :
        GrammarAnswered(p) =>
            /\ exit_code[p] = 0
            /\ Len(stdout[p]) = 1
            /\ stdout[p][1].text = result[p][1].value

\* C6 (amended): for the grammar task with a text and a service that
\* returns s, the exit code is 0 and standard output is the echo of the
\* log entry of the received text, the echo of the log entry of the trimmed
\* s, and then the trimmed s printed once when it is not empty and nothing
\* more when it is empty.
C6_Amended ==
    \A p \in procs :
        GrammarAnswered(p) =>
            LET s == stub[p].completion.choices[1].content[1]
                out == stdout[p]
            IN /\ exit_code[p] = 0
               /\ Len(out) >= 2
               /\ out[1].line = 53 /\ out[1].ts # None
               /\ out[1].text = <<"Log: ", "Received text: ">> \o argv[p].text[1]
               /\ out[2].line = 53 /\ out[2].ts # None
               /\ \E t \in {SubSeq(out[2].text, 3, Len(out[2].text))} :
                     /\ IsTrimOf(t, s)
                     /\ out[2].text = <<"Log: ", "Corrected text: ">> \o t
                     /\ IF t = <<>> THEN Len(out) = 2
                        ELSE Len(out) = 3 /\ out[3] = Line(162, None, t)

C6_Witness ==
    \E p \in procs :
        /\ GrammarAnswered(p)
        /\ argv[p].text = Some(SheDont)
        /\ stub[p].completion.choices[1].content[1] = SheDoesnt
        /\ Len(stdout[p]) = 3
        /\ stdout[p][3].text = SheDoesnt
        /\ exit_code[p] = 0

\* the number of lines of out printed at one of the source lines in at
RECURSIVE CountLines(_, _)
CountLines(out, at) ==
    IF out = <<>> THEN 0
    ELSE (IF Head(out).line \in at THEN 1 ELSE 0) + CountLines(Tail(out), at)

\* the source lines where main prints the result, and where it starts an
\* error message (usage, guidance, missing text, invalid task, exception)
ResultPrints == {162}
ErrorPrints == {129, 137, 147, 152, 158, 164}

\* C7 as stated: every invocation ends either with code 0 after printing
\* the result exactly once, or with code 1 after printing exactly one error
\* message; none ends with code 0 without a printed result.
C7_Original ==
    \A p \in procs :
        pc[p] = "done" =>
            \/ /\ exit_code[p] = 0
               /\ CountLines(stdout[p], ResultPrints) = 1
               /\ CountLines(stdout[p], ErrorPrints) = 0
            \/ /\ exit_code[p] = 1
               /\ CountLines(stdout[p], ErrorPrints) = 1
               /\ CountLines(stdout[p], ResultPrints) = 0

\* C8 as stated: every operation of the client, check_grammar, generate_tldr
\* and list_models, appends at least one entry to the log file once it is
\* over, and every error of an operation is recorded as a log entry.
C8_Original ==
    \A p \in procs :
        ((Requested(p) \/ Listed(p)) /\ Over(p)) =>
            /\ Len(written[p]) >= 1
            /\ Len(log) > Len(log0)
            /\ exc[p] # None =>
                  \E i \in 1..Len(log) : log[i].message = <<"Error: ", exc[p][1]>>

\* C8 (amended): check_grammar and generate_tldr append at least one entry
\* (the received entry) to the log file whether they succeed or fail, and
\* record each of their errors as a log entry; list_models appends nothing
\* to the log file, also when it fails: its error is only printed.
C8_Amended ==
    \A p \in procs :
        /\ (Requested(p) /\ Over(p)) =>
              /\ Len(written[p]) >= 1
              /\ log = log0 \o written[p]
              /\ written[p][1].message = <<"Received text: ">> \o text[p][1]
              /\ exc[p] # None =>
                    written[p][Len(written[p])].message = <<"Error: ", exc[p][1]>>
        /\ Listed(p) =>
              /\ written[p] = <<>>
              /\ log = log0
              /\ (exc[p] # None /\ Over(p)) =>
                    stdout[p][1] = Line(120, None, <<"Error fetching models: ", exc[p][1]>>)

C8_Witness ==
    \E p \in procs :
        /\ pc[p] = "done"
        /\ Listed(p)
        /\ exc[p] = Some("'id'")
        /\ written[p] = <<>>
        /\ log = log0
        /\ stdout[p][1].line = 120
        /\ exit_code[p] = 1

\* the usage cases: no task, grammar or tldr without text, unknown task
NoTask(a) == a.task = None
NoText(a) ==
    a.task # None /\ a.task[1] \in GrammarNames \cup TldrNames /\ a.text \in Empty
UnknownTask(a) ==
    a.task # None /\ a.task[1] \notin GrammarNames \cup TldrNames \cup ListNames
UsageCase(a) == NoTask(a) \/ NoText(a) \/ UnknownTask(a)

\* the hint main prints for a usage case
UsageHint(a) ==
    IF NoTask(a)
    THEN Line(129, None, <<"Usage: python chatgpt_text_tools.py <task> [<text>]">>)
    ELSE IF UnknownTask(a)
    THEN Line(158, None,
              <<"Invalid task. Use 'grammar', 'tldr', or 'list_models'/'lm'.">>)
    ELSE IF a.task[1] \in GrammarNames
    THEN Line(147, None, <<"Error: Text is required for the 'grammar' task.">>)
    ELSE Line(152, None, <<"Error: Text is required for the 'tldr' task.">>)

\* C10 as stated: a usage case always ends as a usage error: it prints a
\* usage hint and exits non-zero, without a network call or a log entry,
\* whether or not a credential is available.
C10_Original ==
    \A p \in procs :
        (UsageCase(argv[p]) /\ pc[p] = "done") =>
            /\ exit_code[p] # 0
            /\ Untouched(p)
            /\ stdout[p] = <<UsageHint(argv[p])>>

\* C10 (amended): a usage case always ends with exit code 1 without a
\* network call or a log entry, whether or not a credential is available;
\* it prints the usage hint when the task is missing or a credential is
\* available, and the credential guidance instead when a task is given and
\* no credential is available.
C10_Amended ==
    \A p \in procs :
        UsageCase(argv[p]) =>
            /\ Untouched(p)
            /\ pc[p] \in {"start", "credential", "construct", "dispatch", "done"}
            /\ pc[p] = "done" =>
                  /\ exit_code[p] = 1
                  /\ stdout[p] =
                        IF NoTask(argv[p]) \/ keyring[p] \notin Empty
                        THEN <<UsageHint(argv[p])>>
                        ELSE GuidanceLines

C10_Witness ==
    \E p \in procs :
        /\ pc[p] = "done"
        /\ argv[p] = [task |-> Some("summarize"), text |-> Some(<<"a">>)]
        /\ keyring[p] = Some(<<"s", "k">>)
        /\ stdout[p] = <<Line(158, None,
                           <<"Invalid task. Use 'grammar', 'tldr', or 'list_models'/'lm'.">>)>>
        /\ exit_code[p] = 1

(***************************************************************************)
(* The log file under several processes                                    *)
(***************************************************************************)
Front(s) == SubSeq(s, 1, Len(s) - 1)

\* s is a merge of the sequences w[p] that keeps the order of each
RECURSIVE Interleaves(_, _)
Interleaves(s, w) ==
    IF s = <<>> THEN \A p \in DOMAIN w : w[p] = <<>>
    ELSE \E p \in DOMAIN w :
            /\ w[p] # <<>>
            /\ w[p][Len(w[p])] = s[Len(s)]
            /\ Interleaves(Front(s), [w EXCEPT ![p] = Front(w[p])])

IsPrefix(s, t) == Len(s) <= Len(t) /\ SubSeq(t, 1, Len(s)) = s

\* what is in the file: the old content, then every entry any process wrote,
\* each process's entries in the order it wrote them
LogWhole ==
    /\ IsPrefix(log0, log)
    /\ Interleaves(SubSeq(log, Len(log0) + 1, Len(log)), written)
    /\ \A p \in procs :
          /\ Len(written[p]) <= 2
          /\ Len(written[p]) >= 1 => written[p][1].message[1] = "Received text: "
          /\ Len(written[p]) = 2 =>
                written[p][2].message[1] \in {"Corrected text: ", "TLDR: ", "Error: "}

\* C9: under any interleaving of processes in check_grammar and
\* generate_tldr on one log file, the file is always the old content followed
\* by whole entries, a step changes it only by adding one entry at the end,
\* no entry of any process is lost, and each process's entries are in the
\* order it wrote them, the received entry first.
C9_AppendOnly ==
    /\ []LogWhole
    /\ [][IsPrefix(log, log') /\ Len(log') <= Len(log) + 1]_vars

\* two processes' entries interleaved: received 1, received 2, result 1
C9_Witness ==
    /\ Len(log) >= Len(log0) + 3
    /\ \E p \in procs : \E q \in procs \ {p} :
          /\ Len(written[p]) = 2
          /\ Len(written[q]) >= 1
          /\ log[Len(log0) + 1] = written[p][1]
          /\ log[Len(log0) + 2] = written[q][1]
          /\ log[Len(log0) + 3] = written[p][2]
          /\ written[p][1] # written[q][1]

====
